---- MODULE Spec2Model ----
(***************************************************************************)
(* A model of the numerical core of astroutils: the cosmological distance  *)
(* and age functions (cosmology.py and their copies in astroutils.py), the *)
(* Kepler solver (orbits.py and its copy in astroutils.py) and the plot    *)
(* down-sampler (plot.py).                                                 *)
(*                                                                         *)
(* Floats are fixed-point integers:                                        *)
(*   angles, integrals, sines          in thousandths (Milli)              *)
(*   density parameters                in hundredths  (OmegaScale)         *)
(*   redshifts                         in eighths     (ZScale)             *)
(*   eccentricities                    in tenths      (EccScale)           *)
(*   distances in Mpc and ages in Myr  in whole units                      *)
(* The outcome of a Python call is a record [kind, val, msg, warn]: kind   *)
(* is "ok" for a returned value and the exception's class otherwise, msg   *)
(* is the exception's message, and warn says that an IntegrationWarning    *)
(* was issued on the way.                                                  *)
(***************************************************************************)
EXTENDS Integers, Sequences, FiniteSets, TLC

VARIABLES
  globals,  \* module name -> that module's global data bindings
  last,     \* the call that has just returned to the caller: [fn, mod, args,
            \* out], or NoCall while the caller runs
  prior     \* the density parameters of the latest cosmology call the caller
            \* has gone on from, <<>> before there is one

vars == <<globals, last, prior>>

---------------------------------------------------------------------------
(* Fixed-point scales and the bounds of the inputs.                        *)

Milli == 1000
OmegaScale == 100
ZScale == 8
EccScale == 10

\* Redshifts are the whole numbers 0 .. MaxZ.
MaxZ == 2

---------------------------------------------------------------------------
(* Python outcomes.                                                        *)

Ok(v) == [kind |-> "ok", val |-> v, msg |-> "", warn |-> FALSE]
Warned(v) == [kind |-> "ok", val |-> v, msg |-> "", warn |-> TRUE]
Raise(k, m) == [kind |-> k, val |-> 0, msg |-> m, warn |-> FALSE]
IsOk(r) == r.kind = "ok"

\* the value v computed from an outcome r that returned; r's warning stays
Then(r, v) == [kind |-> "ok", val |-> v, msg |-> "", warn |-> r.warn]

Abs(x) == IF x < 0 THEN -x ELSE x
Sgn(x) == IF x < 0 THEN -1 ELSE IF x > 0 THEN 1 ELSE 0

\* floor(a * b / d) without forming a * b
MulDiv(a, b, d) == (a \div d) * b + ((a % d) * b) \div d

\* Newton's iteration for the integer square root of n, from x >= sqrt(n)
RECURSIVE IsqrtFrom(_, _)
IsqrtFrom(n, x) ==
  LET y == (x + n \div x) \div 2
  IN IF y >= x THEN x ELSE IsqrtFrom(n, y)

\* the integer square root of n >= 0
Isqrt(n) ==
  IF n = 0 THEN 0
  ELSE IF n < 256 THEN IsqrtFrom(n, 16)
  ELSE IF n < 65536 THEN IsqrtFrom(n, 256)
  ELSE IF n < 16777216 THEN IsqrtFrom(n, 4096)
  ELSE IsqrtFrom(n, 46341)

\* math.sqrt of x / scale, in thousandths; a negative argument is a
\* "math domain error"
sqrt(x, scale) ==
  IF x < 0 THEN Raise("ValueError", "math domain error")
  ELSE Ok(Isqrt(MulDiv(x, Milli * Milli, scale)))

---------------------------------------------------------------------------
(* math.pi, math.sin, math.sinh                                            *)

pi == 3142

\* Bhaskara's approximation of Milli * sin(x) for 0 <= x <= pi
SinArc(x) ==
  LET p == x * (pi - x)
  IN (16 * p) \div ((5 * pi * pi - 4 * p) \div Milli)

SinPos(x) ==
  LET r == x % (2 * pi)
  IN IF r <= pi THEN SinArc(r) ELSE -SinArc(r - pi)

sin(x) == IF x < 0 THEN -SinPos(-x) ELSE SinPos(x)

\* the terms x^(2k+1)/(2k+1)! of the series of sinh, from the term t of
\* index k on
RECURSIVE SinhTerms(_, _, _)
SinhTerms(x, t, k) ==
  IF t = 0 THEN 0
  ELSE t + SinhTerms(x, MulDiv(MulDiv(t, x, Milli), x, Milli) \div
                          ((2 * k + 2) * (2 * k + 3)), k + 1)

sinh(x) == IF x < 0 THEN -SinhTerms(-x, -x, 0) ELSE SinhTerms(x, x, 0)

---------------------------------------------------------------------------
(* Name resolution.                                                        *)

\* a global name read inside module mod, g the modules' bindings
LoadGlobal(g, mod, name) ==
  IF name \in DOMAIN g[mod] THEN Ok(g[mod][name])
  ELSE Raise("NameError", "name is not defined")

---------------------------------------------------------------------------
(* scipy.optimize.brentq as manom_eanom calls it: the sign check, the two  *)
(* end points, then the bracketing iteration within its iteration budget.  *)

xtol == 1
maxiter == 100

RECURSIVE BrentIter(_, _, _, _)
BrentIter(f, lo, hi, iter) ==
  IF hi - lo <= xtol THEN Ok(IF f[hi] = 0 THEN hi ELSE lo)
  ELSE IF iter = maxiter THEN Raise("RuntimeError", "Failed to converge")
  ELSE LET mid == (lo + hi) \div 2
           fm == f[mid]
       IN IF fm = 0 THEN Ok(mid)
          ELSE IF Sgn(fm) = Sgn(f[lo]) THEN BrentIter(f, mid, hi, iter + 1)
          ELSE BrentIter(f, lo, mid, iter + 1)

brentq(f, a, b) ==
  IF Sgn(f[a]) * Sgn(f[b]) > 0
  THEN Raise("ValueError", "f(a) and f(b) must have different signs")
  ELSE IF f[a] = 0 THEN Ok(a)
  ELSE IF f[b] = 0 THEN Ok(b)
  ELSE BrentIter(f, a, b, 0)

\* the lambda with the mean anomaly added: x - e * sin(x) + m
KeplerF_plus_m(e, m, x) == EccScale * x - e * sin(x) + EccScale * m

\* lambda x: x - e * sin(x) - m, in units of 1 / (Milli * EccScale)
KeplerF(e, m, x) == EccScale * x - e * sin(x) - EccScale * m

MeanAnomalyMsg == "mean anomaly must be an angle between 0 and 2pi"

\* manom_eanom with the two ends of the range rejected
manom_eanom_open_range(e, m) ==
  IF m <= 0 \/ m >= 2 * pi THEN Raise("ValueError", MeanAnomalyMsg)
  ELSE brentq([x \in Int |-> KeplerF(e, m, x)], 0, 2 * pi)

\* manom_eanom with the bracket [0, pi]
manom_eanom_half_bracket(e, m) ==
  IF m < 0 \/ m > 2 * pi THEN Raise("ValueError", MeanAnomalyMsg)
  ELSE brentq([x \in Int |-> KeplerF(e, m, x)], 0, pi)

manom_eanom(e, m) ==
  IF m < 0 \/ m > 2 * pi THEN Raise("ValueError", MeanAnomalyMsg)
  ELSE brentq([x \in Int |-> KeplerF(e, m, x)], 0, 2 * pi)

---------------------------------------------------------------------------
(* scipy.integrate.quad as the cosmology functions call it, quad(f, a,     *)
(* b)[0]: midpoint rules of 1, 2, 4, ... panels until two successive       *)
(* estimates agree within the tolerance or the subdivision limit is met.   *)
(* An exception of the integrand is the outcome of quad; within the limit  *)
(* without agreement, quad issues an IntegrationWarning and returns its    *)
(* last estimate all the same. The integrand is evaluated inside the       *)
(* interval only, and at a when a = b.                                     *)

limit == 4
epsrel == 5     \* in hundredths
epsabs == 2     \* in thousandths
inf == 1000000

QuadTol(v) ==
  LET rel == (epsrel * Abs(v)) \div 100
  IN IF rel > epsabs THEN rel ELSE epsabs

\* the k-th node of the n-panel rule on [a, b], and on [a, inf) mapped to
\* (0, 1] by x = a + (1 - t) / t
QuadNode(a, b, n, k) ==
  IF b = inf THEN a + (ZScale * (2 * n - 2 * k - 1)) \div (2 * k + 1)
  ELSE a + ((2 * k + 1) * (b - a)) \div (2 * n)

\* the weight of that node, applied to the integrand's value v
QuadWeigh(a, b, n, k, v) ==
  IF b = inf THEN MulDiv(v, 4 * n, (2 * k + 1) * (2 * k + 1))
  ELSE MulDiv(v, b - a, ZScale * n)

\* the nodes k .. n-1 of the n-panel rule, summed
RECURSIVE QuadSum(_, _, _, _, _)
QuadSum(f, a, b, n, k) ==
  IF k = n THEN Ok(0)
  ELSE LET y == f[QuadNode(a, b, n, k)]
       IN IF ~IsOk(y) THEN y
          ELSE LET rest == QuadSum(f, a, b, n, k + 1)
               IN IF ~IsOk(rest) THEN rest
                  ELSE Ok(QuadWeigh(a, b, n, k, y.val) + rest.val)

RECURSIVE QuadRefine(_, _, _, _, _)
QuadRefine(f, a, b, n, prev) ==
  LET cur == QuadSum(f, a, b, 2 * n, 0)
  IN IF ~IsOk(cur) THEN cur
     ELSE IF Abs(cur.val - prev) <= QuadTol(cur.val) THEN Ok(cur.val)
     ELSE IF 2 * n >= limit THEN Warned(cur.val)
     ELSE QuadRefine(f, a, b, 2 * n, cur.val)

quad(f, a, b) ==
  LET first == QuadSum(f, a, b, 1, 0)
  IN IF ~IsOk(first) THEN first ELSE QuadRefine(f, a, b, 1, first.val)

---------------------------------------------------------------------------
(* cosmology.py, and the same functions of astroutils.py. mod is the       *)
(* module the function is taken from.                                      *)

\* the quantity under the square root at redshift z, times RadScale:
\* omega_m * (1 + z)**3 + omega_r * (1 + z)**4 + omega_l
\*   + (1 - omega_k) * (1 + z)**2
RadScale == ZScale * ZScale * ZScale * ZScale * OmegaScale
SqrtRadScale == Isqrt(RadScale)

Radicand(z, omega_m, omega_l, omega_r, omega_k) ==
  LET w == ZScale + z
  IN omega_m * w * w * w * ZScale + omega_r * w * w * w * w
     + omega_l * ZScale * ZScale * ZScale * ZScale
     + (OmegaScale - omega_k) * w * w * ZScale * ZScale

\* 1 / x for x in thousandths, in thousandths
Reciprocal(x) ==
  IF x = 0 THEN Raise("ZeroDivisionError", "float division by zero")
  ELSE Ok((Milli * Milli) \div x)

\* lambda z: 1 / sqrt(...), the integrand of i_integral
Integrand(z, omega_m, omega_l, omega_r, omega_k) ==
  LET q == Radicand(z, omega_m, omega_l, omega_r, omega_k)
  IN IF q < 0 THEN Raise("ValueError", "math domain error")
     ELSE IF q = 0 THEN Raise("ZeroDivisionError", "float division by zero")
     ELSE Ok((SqrtRadScale * Milli) \div Isqrt(q))

i_integral(redshift, omega_m, omega_l, omega_r, omega_k) ==
  quad([z \in Int |-> Integrand(z, omega_m, omega_l, omega_r, omega_k)],
       0, redshift)

\* 1 / sqrt(omega_k - 1) * trig(i_integral(...) * sqrt(omega_k - 1)), in the
\* order Python evaluates it
Closure(trig, redshift, omega_m, omega_l, omega_r, omega_k) ==
  LET root == sqrt(omega_k - OmegaScale, OmegaScale)
      inv == Reciprocal(root.val)
      i == i_integral(redshift, omega_m, omega_l, omega_r, omega_k)
  IN IF ~IsOk(root) THEN root
     ELSE IF ~IsOk(inv) THEN inv
     ELSE IF ~IsOk(i) THEN i
     ELSE Then(i, MulDiv(inv.val, trig[MulDiv(i.val, root.val, Milli)], Milli))

\* the branch of s_func taken for omega_k
s_func_branch(omega_k) ==
  IF omega_k = OmegaScale THEN "identity"
  ELSE IF omega_k < OmegaScale THEN "sin"
  ELSE IF omega_k > OmegaScale THEN "sinh"
  ELSE "none"

s_func(redshift, omega_m, omega_l, omega_r, omega_k) ==
  LET branch == s_func_branch(omega_k)
  IN IF branch = "identity"
     THEN i_integral(redshift, omega_m, omega_l, omega_r, omega_k)
     ELSE IF branch = "sin"
     THEN Closure([x \in Int |-> sin(x)], redshift, omega_m, omega_l, omega_r, omega_k)
     ELSE IF branch = "sinh"
     THEN Closure([x \in Int |-> sinh(x)], redshift, omega_m, omega_l, omega_r, omega_k)
     ELSE Ok(0)

\* the module whose globals hold the constants comove_coord reads:
\* cosmology.py imports consts, astroutils.py reads its own globals
ConstsOf(mod) == IF mod = "cosmology" THEN "consts" ELSE mod

\* c / h * s, c and h the two constants as looked up and s the outcome of
\* s_func, in the order Python evaluates them
HubbleDistance(c, h, s) ==
  IF ~IsOk(c) THEN c
  ELSE IF ~IsOk(h) THEN h
  ELSE IF h.val = 0
  THEN Raise("ZeroDivisionError", "float division by zero")
  ELSE IF ~IsOk(s) THEN s
  ELSE Then(s, MulDiv(s.val, c.val \div h.val, Milli))

comove_coord(g, mod, z, omega_m, omega_l, omega_r, omega_k) ==
  HubbleDistance(LoadGlobal(g, ConstsOf(mod), "speed_of_light_km_s"),
                 LoadGlobal(g, ConstsOf(mod), "hubble_constant"),
                 s_func(z, omega_m, omega_l, omega_r, omega_k))

\* d * num / den for the outcome d of the function below; an exception of
\* d is the outcome
Rescale(d, num, den) ==
  IF ~IsOk(d) THEN d
  ELSE IF den = 0 THEN Raise("ZeroDivisionError", "float division by zero")
  ELSE Then(d, MulDiv(d.val, num, den))

\* luminosity_distance that leaves the cosmology of comove_coord at its
\* defaults
luminosity_distance_defaults(g, mod, z, omega_m, omega_l, omega_r, omega_k) ==
  Rescale(comove_coord(g, mod, z, 27, 73, 0, OmegaScale), ZScale + z, ZScale)

luminosity_distance(g, mod, z, omega_m, omega_l, omega_r, omega_k) ==
  Rescale(comove_coord(g, mod, z, omega_m, omega_l, omega_r, omega_k),
          ZScale + z, ZScale)

angular_distance(g, mod, z, omega_m, omega_l, omega_r, omega_k) ==
  Rescale(luminosity_distance(g, mod, z, omega_m, omega_l, omega_r, omega_k),
          ZScale * ZScale, (ZScale + z) * (ZScale + z))

\* hubble_constant * 1.022e-6, in units of 1e-9 / Myr
MyrFactor == 1022
Giga == 1000000000

\* lambda z: 1 / ((1 + z) * sqrt(...)), the integrand of universe_age
AgeIntegrand(z, omega_m, omega_l, omega_r, omega_k) ==
  LET q == Radicand(z, omega_m, omega_l, omega_r, omega_k)
      w == ZScale + z
  IN IF q < 0 THEN Raise("ValueError", "math domain error")
     ELSE IF w * Isqrt(q) = 0
     THEN Raise("ZeroDivisionError", "float division by zero")
     ELSE Ok((ZScale * SqrtRadScale * Milli) \div (w * Isqrt(q)))

universe_age(g, mod, redshift, omega_m, omega_l, omega_r, omega_k) ==
  LET h == LoadGlobal(g, mod, "hubble_constant")
      h_const == (h.val * MyrFactor) \div 10
      age == quad([z \in Int |-> AgeIntegrand(z, omega_m, omega_l, omega_r, omega_k)],
                  redshift, inf)
  IN IF ~IsOk(h) THEN h
     ELSE IF h_const = 0
     THEN Raise("ZeroDivisionError", "float division by zero")
     ELSE IF ~IsOk(age) THEN age
     ELSE Then(age, MulDiv(age.val, Giga \div h_const, Milli))

---------------------------------------------------------------------------
(* The calls a program makes.                                              *)

OmegaMs == {0, 27, 100}
OmegaLs == {0, 73}
OmegaRs == {0, 1}
OmegaKs == {50, 100, 200}
Redshifts == {ZScale * n : n \in 0 .. MaxZ}
CosmoArgs == Redshifts \X OmegaMs \X OmegaLs \X OmegaRs \X OmegaKs

Eccentricities == {0, 1, 5, 9}
MeanAnomalies == {-100, 0, 1000, pi, 2 * pi, 2 * pi + 1, 7000}
KeplerArgs == Eccentricities \X MeanAnomalies

CosmoModules == {"astroutils", "cosmology"}
KeplerModules == {"astroutils", "orbits"}
CosmoFns == {"i_integral", "s_func", "comove_coord", "luminosity_distance",
             "angular_distance", "universe_age"}

Call(fn, mod, args) == [fn |-> fn, mod |-> mod, args |-> args]

\* the outcome of a call of the core made with the modules' bindings g
Outcome(g, c) ==
  LET a == c.args
  IN CASE c.fn = "i_integral" -> i_integral(a[1], a[2], a[3], a[4], a[5])
       [] c.fn = "s_func" -> s_func(a[1], a[2], a[3], a[4], a[5])
       [] c.fn = "comove_coord" ->
            comove_coord(g, c.mod, a[1], a[2], a[3], a[4], a[5])
       [] c.fn = "luminosity_distance" ->
            luminosity_distance(g, c.mod, a[1], a[2], a[3], a[4], a[5])
       [] c.fn = "angular_distance" ->
            angular_distance(g, c.mod, a[1], a[2], a[3], a[4], a[5])
       [] c.fn = "universe_age" ->
            universe_age(g, c.mod, a[1], a[2], a[3], a[4], a[5])
       [] c.fn = "manom_eanom" -> manom_eanom(a[1], a[2])

Returned(c, out) ==
  [fn |-> c.fn, mod |-> c.mod, args |-> c.args, out |-> out]

NoCall == [fn |-> "", mod |-> "", args |-> <<>>, out |-> Ok(0)]

\* consts.py and the constants of astroutils.py; cosmology.py and orbits.py
\* bind no data of their own. hubble_constant and speed_of_light_km_s are in
\* tenths.
InitGlobals ==
  [mod \in {"consts", "astroutils", "cosmology", "orbits"} |->
     IF mod \in {"consts", "astroutils"}
     THEN [n \in {"hubble_constant", "speed_of_light_km_s"} |->
             IF n = "hubble_constant" THEN 704 ELSE 2997925]
     ELSE [n \in {} |-> 0]]

Init ==
  /\ globals = InitGlobals
  /\ last = NoCall
  /\ prior = <<>>

\* universe_age of astroutils.py storing its converted constant in the global
\* hubble_constant
EffectRebind(g, c) ==
  IF c.fn = "universe_age" /\ c.mod = "astroutils"
     /\ g["astroutils"]["hubble_constant"] < Milli
  THEN [g EXCEPT !["astroutils"]["hubble_constant"] = (@ * MyrFactor) \div 10]
  ELSE g

\* the modules' bindings after call c made with the bindings g: no function
\* of the core has a global statement, so none rebinds a global
Effect(g, c) == g

\* no call is in progress: the caller is free to make one
Idle == last.fn = ""

\* the caller makes the call c and gets its outcome out
Invoke(c, out) ==
  /\ last' = Returned(c, out)
  /\ globals' = Effect(globals, c)
  /\ UNCHANGED prior

\* <<omega_m, omega_l, omega_r, omega_k>> of a cosmology call's arguments
Cosmology(a) == <<a[2], a[3], a[4], a[5]>>

\* the caller goes on with the outcome, be it a value or an exception
Resume ==
  /\ ~Idle
  /\ last' = NoCall
  /\ prior' = IF last.fn \in CosmoFns THEN Cosmology(last.args) ELSE prior
  /\ UNCHANGED globals

Call_i_integral ==
  /\ Idle
  /\ \E mod \in CosmoModules, a \in CosmoArgs :
       Invoke(Call("i_integral", mod, a),
              i_integral(a[1], a[2], a[3], a[4], a[5]))

Call_s_func ==
  /\ Idle
  /\ \E mod \in CosmoModules, a \in CosmoArgs :
       Invoke(Call("s_func", mod, a), s_func(a[1], a[2], a[3], a[4], a[5]))

Call_comove_coord ==
  /\ Idle
  /\ \E mod \in CosmoModules, a \in CosmoArgs :
       Invoke(Call("comove_coord", mod, a),
              comove_coord(globals, mod, a[1], a[2], a[3], a[4], a[5]))

Call_luminosity_distance ==
  /\ Idle
  /\ \E mod \in CosmoModules, a \in CosmoArgs :
       Invoke(Call("luminosity_distance", mod, a),
              luminosity_distance(globals, mod, a[1], a[2], a[3], a[4], a[5]))

Call_angular_distance ==
  /\ Idle
  /\ \E mod \in CosmoModules, a \in CosmoArgs :
       Invoke(Call("angular_distance", mod, a),
              angular_distance(globals, mod, a[1], a[2], a[3], a[4], a[5]))

Call_universe_age ==
  /\ Idle
  /\ \E mod \in CosmoModules, a \in CosmoArgs :
       Invoke(Call("universe_age", mod, a),
              universe_age(globals, mod, a[1], a[2], a[3], a[4], a[5]))

Call_manom_eanom ==
  /\ Idle
  /\ \E mod \in KeplerModules, a \in KeplerArgs :
       Invoke(Call("manom_eanom", mod, a), manom_eanom(a[1], a[2]))

Next ==
  \/ Call_i_integral
  \/ Call_s_func
  \/ Call_comove_coord
  \/ Call_luminosity_distance
  \/ Call_angular_distance
  \/ Call_universe_age
  \/ Call_manom_eanom
  \/ Resume

Spec == Init /\ [][Next]_vars


---------------------------------------------------------------------------
(* plot.py: sample. Arrays are sequences of whole numbers; Python's        *)
(* positions 0 .. n-1 are the sequence's 1 .. n. The outcome of sample is  *)
(* a record [kind, msg, ret], ret the tuple returned.                      *)

\* Arrays have at most MaxLen elements.
MaxLen == 5

SampleOk(ret) == [kind |-> "ok", msg |-> "", ret |-> ret]
SampleRaise(k, m) == [kind |-> k, msg |-> m, ret |-> <<>>]

LengthMsg == "plot.sample(): X and Y must have same length"
UnboundMsg == "local variable referenced before assignment"

Min(a, b) == IF a < b THEN a ELSE b
Max(a, b) == IF a > b THEN a ELSE b

RECURSIVE SeqMin(_)
SeqMin(A) == IF Len(A) = 1 THEN A[1] ELSE Min(A[1], SeqMin(Tail(A)))
RECURSIVE SeqMax(_)
SeqMax(A) == IF Len(A) = 1 THEN A[1] ELSE Max(A[1], SeqMax(Tail(A)))

zeros(n) == [i \in 1 .. n |-> 0]
arange(n) == [i \in 1 .. n |-> i - 1]

\* np.linspace(lo, hi, num=bins): the number of its elements, and its
\* element i (from 0) times (bins - 1)
LinspaceLen(bins) == IF bins < 0 THEN 0 ELSE bins
LinspaceTimes(lo, hi, bins, i) == lo * (bins - 1) + i * (hi - lo)

\* the positions j with  intervals[i] < A[j] < intervals[i+1], in order
RECURSIVE MaskFrom(_, _, _, _, _, _)
MaskFrom(A, lo, hi, bins, i, j) ==
  IF j > Len(A) THEN <<>>
  ELSE LET v == A[j] * (bins - 1)
           in_bin == /\ LinspaceTimes(lo, hi, bins, i) < v
                     /\ v < LinspaceTimes(lo, hi, bins, i + 1)
       IN (IF in_bin THEN <<j>> ELSE <<>>) \o MaskFrom(A, lo, hi, bins, i, j + 1)

Mask(A, bins, i) == MaskFrom(A, SeqMin(A), SeqMax(A), bins, i, 1)

\* A[idx] for a sequence idx of positions
Take(A, idx) == [k \in 1 .. Len(idx) |-> A[idx[k]]]

\* random.sample(range(n), k): k distinct positions of 1 .. n, one choice
\* for each value of rnd
RandSample(n, k, rnd) == [j \in 1 .. k |-> ((rnd + j - 1) % n) + 1]

\* the slice A[start:stop] of an array of n elements, clipped as Python
\* clips it: its first position (from 0) and its length
SliceStart(n, start) == Min(Max(start, 0), n)
SliceLen(n, start, stop) ==
  Max(Min(Max(stop, 0), n) - SliceStart(n, start), 0)

\* whether  A[start:stop] = V  broadcasts
SliceFits(A, start, stop, V) ==
  Len(V) = SliceLen(Len(A), start, stop) \/ Len(V) = 1

\* A after  A[start:stop] = V
SliceAssign(A, start, stop, V) ==
  LET s0 == SliceStart(Len(A), start)
      n == SliceLen(Len(A), start, stop)
  IN [j \in 1 .. Len(A) |->
        IF j > s0 /\ j <= s0 + n
        THEN (IF Len(V) = 1 THEN V[1] ELSE V[j - s0])
        ELSE A[j]]

\* The locals of sample that the loops assign: env is [X_samp, Y_samp,
\* indices_samp, n_samp, bound, err].  bound is the set of names that are
\* bound, err the exception raised so far ("" for none).
Fail(env, k, m) == [env EXCEPT !.err = SampleRaise(k, m)]
Failed(env) == env.err.kind # "ok"

\* one pass of a binning loop (lines 63-78 with A = X and base = 0, lines
\* 80-95 with A = Y and base = bins): bin i
BinStep(env, X, Y, A, base, n_points, return_indices, bins, rnd, i) ==
  LET mask == Mask(A, bins, i)
      binX == Take(X, mask)
      binY == Take(Y, mask)
      n_samp == Min((n_points \div 2) \div bins, Len(binX))
      rand_indices == RandSample(Len(binX), n_samp, rnd)
      lo == base * n_samp + i * n_samp
      hi == base * n_samp + (i + 1) * n_samp
      binX_samp == Take(binX, rand_indices)
      binY_samp == Take(binY, rand_indices)
      bini_samp == Take(Take(arange(Len(X)), mask), rand_indices)
  IN IF "indices" \notin env.bound
     THEN Fail(env, "UnboundLocalError", UnboundMsg)
     ELSE IF ~SliceFits(env.X_samp, lo, hi, binX_samp)
     THEN Fail(env, "ValueError", "could not broadcast input array")
     ELSE [env EXCEPT
             !.X_samp = SliceAssign(@, lo, hi, binX_samp),
             !.Y_samp = SliceAssign(@, lo, hi, binY_samp),
             !.indices_samp = IF return_indices
                              THEN SliceAssign(@, lo, hi, bini_samp) ELSE @,
             !.n_samp = n_samp,
             !.bound = @ \cup {"n_samp"}]

\* for i, elem in enumerate(intervals[:-1]), from bin i on
RECURSIVE BinLoop(_, _, _, _, _, _, _, _, _, _)
BinLoop(env, X, Y, A, base, n_points, return_indices, bins, rnd, i) ==
  IF Failed(env) \/ i >= LinspaceLen(bins) - 1 THEN env
  ELSE BinLoop(BinStep(env, X, Y, A, base, n_points, return_indices, bins,
                       rnd, i),
               X, Y, A, base, n_points, return_indices, bins, rnd, i + 1)

\* one of the two paddings (lines 101-105 with start = bins * n_samp + 1,
\* lines 107-111 with start = 2 * bins * n_samp + 1)
Pad(env, X, Y, n_points, return_indices, bins, rnd, start) ==
  LET k == n_points - bins * env.n_samp
      rand_indices == Take(X, RandSample(Len(X), k, rnd))
      stop == start + 1 + Len(rand_indices)
      in_range == \A j \in 1 .. k : rand_indices[j] < Len(X)
      at == [j \in 1 .. k |-> rand_indices[j] + 1]
  IN IF Failed(env) THEN env
     ELSE IF k < 0 \/ k > Len(X)
     THEN Fail(env, "ValueError", "sample larger than population")
     ELSE IF ~in_range
     THEN Fail(env, "IndexError", "index out of bounds")
     ELSE IF ~SliceFits(env.X_samp, start, stop, rand_indices)
     THEN Fail(env, "ValueError", "could not broadcast input array")
     ELSE [env EXCEPT
             !.X_samp = SliceAssign(@, start, stop, Take(X, at)),
             !.Y_samp = SliceAssign(@, start, stop, Take(Y, at)),
             !.indices_samp = IF return_indices
                              THEN SliceAssign(@, start, stop, rand_indices)
                              ELSE @]

\* lines 97-111
Padding(env, X, Y, n_points, return_indices, bins, rnd) ==
  IF Failed(env) THEN env
  ELSE IF "n_samp" \notin env.bound
  THEN Fail(env, "UnboundLocalError", UnboundMsg)
  ELSE IF 2 * bins * env.n_samp < n_points
  THEN Pad(Pad(env, X, Y, n_points, return_indices, bins, rnd,
               bins * env.n_samp + 1),
           X, Y, n_points, return_indices, bins, rnd,
           2 * bins * env.n_samp + 1)
  ELSE env

\* lines 121-124
SampleReturn(env, return_indices) ==
  IF Failed(env) THEN env.err
  ELSE IF return_indices
  THEN (IF "indices_samp" \in env.bound
        THEN SampleOk(<<env.X_samp, env.Y_samp, env.indices_samp>>)
        ELSE SampleRaise("UnboundLocalError", UnboundMsg))
  ELSE SampleOk(<<env.X_samp, env.Y_samp>>)

sample(X, Y, n_points, return_indices, bins, rnd) ==
  IF Len(X) # Len(Y) THEN SampleRaise("ValueError", LengthMsg)
  ELSE IF Len(X) <= n_points
  THEN SampleReturn([X_samp |-> X, Y_samp |-> Y, indices_samp |-> <<>>,
                     n_samp |-> 0, bound |-> {"X_samp", "Y_samp"},
                     err |-> SampleOk(<<>>)],
                    return_indices)
  ELSE LET env0 == [X_samp |-> zeros(n_points), Y_samp |-> zeros(n_points),
                    indices_samp |-> IF return_indices THEN zeros(n_points)
                                     ELSE <<>>,
                    n_samp |-> 0,
                    bound |-> {"X_samp", "Y_samp"} \cup
                              (IF return_indices
                               THEN {"indices", "indices_samp"} ELSE {}),
                    err |-> SampleOk(<<>>)]
           env1 == BinLoop(env0, X, Y, X, 0, n_points, return_indices, bins,
                           rnd, 0)
           env2 == BinLoop(env1, X, Y, Y, bins, n_points, return_indices,
                           bins, rnd, 0)
           env3 == Padding(env2, X, Y, n_points, return_indices, bins, rnd)
       IN SampleReturn(env3, return_indices)

\* the arrays of the calls: evenly spaced values
Ramp(n, first, step) == [i \in 1 .. n |-> first + step * (i - 1)]
Arrays == {Ramp(n, first, step) : n \in 0 .. MaxLen, first \in 0 .. 1,
                                  step \in 0 .. 1}
SampleArgs ==
  Arrays \X Arrays \X (0 .. MaxLen) \X BOOLEAN \X (1 .. 2) \X (0 .. 1)

Call_sample ==
  /\ Idle
  /\ \E a \in SampleArgs :
       last' = [fn |-> "sample", mod |-> "plot", args |-> a,
                out |-> sample(a[1], a[2], a[3], a[4], a[5], a[6])]
  /\ UNCHANGED <<globals, prior>>

NextPlot == Call_sample \/ Resume

SpecPlot == Init /\ [][NextPlot]_vars

---------------------------------------------------------------------------
(* The claims.                                                             *)

\* C1: manom_eanom raises its domain error (the ValueError with the mean
\* anomaly message, raised by the check that stands before brentq) for
\* every m < 0 and every m > 2 pi, and never for 0 <= m <= 2 pi.
C1_DomainError ==
  last.fn = "manom_eanom" =>
    LET m == last.args[2]
    IN /\ (m < 0 \/ m > 2 * pi) => last.out = Raise("ValueError", MeanAnomalyMsg)
       /\ (0 <= m /\ m <= 2 * pi) =>
            ~(last.out.kind = "ValueError" /\ last.out.msg = MeanAnomalyMsg)

C1_Witness ==
  /\ last.fn = "manom_eanom"
  /\ last.args[2] = 2 * pi + 1
  /\ last.out = Raise("ValueError", MeanAnomalyMsg)

\* C2 as claimed: s_func returns i_integral unchanged for omega_k = 1, the
\* hyperbolic form sinh(i * sqrt(omega_k - 1)) / sqrt(omega_k - 1) for
\* omega_k < 1 and the trigonometric form with sin for omega_k > 1.
C2_Claimed ==
  last.fn = "s_func" =>
    LET a == last.args
    IN /\ a[5] = OmegaScale =>
            /\ s_func_branch(a[5]) = "identity"
            /\ last.out = i_integral(a[1], a[2], a[3], a[4], a[5])
       /\ a[5] < OmegaScale =>
            /\ s_func_branch(a[5]) = "sinh"
            /\ last.out = Closure([x \in Int |-> sinh(x)], a[1], a[2], a[3], a[4], a[5])
       /\ a[5] > OmegaScale =>
            /\ s_func_branch(a[5]) = "sin"
            /\ last.out = Closure([x \in Int |-> sin(x)], a[1], a[2], a[3], a[4], a[5])

\* C3 as claimed: comove_coord(0, ...) returns 0 for every cosmology and
\* does not end in an error.
C3_Claimed ==
  (last.fn = "comove_coord" /\ last.args[1] = 0) => last.out = Ok(0)

\* C4: with the same arguments, luminosity_distance is comove_coord times
\* (1 + z) and angular_distance is luminosity_distance over (1 + z)^2; an
\* exception below is the outcome of the wrapper.
C4_DistanceRelations ==
  LET a == last.args
      w == ZScale + a[1]
  IN /\ last.fn = "luminosity_distance" =>
          LET d == comove_coord(globals, last.mod, a[1], a[2], a[3], a[4], a[5])
          IN last.out = IF IsOk(d) THEN Then(d, MulDiv(d.val, w, ZScale)) ELSE d
     /\ last.fn = "angular_distance" =>
          LET d == luminosity_distance(globals, last.mod,
                                       a[1], a[2], a[3], a[4], a[5])
          IN last.out = IF IsOk(d)
                        THEN Then(d, MulDiv(d.val, ZScale * ZScale, w * w))
                        ELSE d

C4_Witness ==
  /\ last.fn = "angular_distance"
  /\ last.args[1] > 0
  /\ Cosmology(last.args) = <<100, 73, 0, 200>>
  /\ IsOk(last.out)
  /\ last.out.val > 0

\* C5 as claimed: when the quantity under the square root is zero or
\* negative where i_integral evaluates its integrand, the call raises the
\* domain error, in the zero case as in the negative case.
C5_Claimed ==
  last.fn = "i_integral" =>
    LET a == last.args
        q == Radicand(QuadNode(0, a[1], 1, 0), a[2], a[3], a[4], a[5])
    IN q <= 0 => last.out = Raise("ValueError", "math domain error")

Concordance == <<27, 73, 0, OmegaScale>>

\* C6 as claimed: under the concordance parameters universe_age completes
\* with an age and does not fail on resolving the Hubble constant.
C6_Claimed ==
  (last.fn = "universe_age" /\ Cosmology(last.args) = Concordance)
    => IsOk(last.out)

\* C7 as claimed: no cosmology or Kepler function returns an ordinary
\* number from an iteration that did not converge.
C7_Claimed ==
  last.fn \in CosmoFns \cup {"manom_eanom"} => ~(IsOk(last.out) /\ last.out.warn)

\* C8: for every eccentricity in [0, 1), manom_eanom(e, 0) returns 0 and
\* manom_eanom(e, 2 pi) returns 2 pi, with no error.
C8_Endpoints ==
  (last.fn = "manom_eanom" /\ last.args[1] \in 0 .. EccScale - 1) =>
    /\ last.args[2] = 0 => last.out = Ok(0)
    /\ last.args[2] = 2 * pi => last.out = Ok(2 * pi)

C8_Witness ==
  /\ last.fn = "manom_eanom"
  /\ last.args = <<9, 2 * pi>>
  /\ last.out = Ok(2 * pi)

\* C9: after any sequence of calls the constants are what they were at the
\* start, and the outcome of a call is the outcome the same call has in a
\* process that has made no call before.
C9_Pure ==
  /\ globals = InitGlobals
  /\ last.fn \in CosmoFns \cup {"manom_eanom"} =>
       last.out = Outcome(InitGlobals, Call(last.fn, last.mod, last.args))

C9_Witness ==
  /\ last.fn = "comove_coord"
  /\ prior # <<>>
  /\ prior # Cosmology(last.args)
  /\ IsOk(last.out)
  /\ last.out.val > 0

\* C10 as claimed: with X and Y of equal length sample completes without
\* error, returning (X_samp, Y_samp) and the sampled indices as well exactly
\* when return_indices is true; with len(X) <= n_points, X_samp and Y_samp
\* are X and Y; with len(X) # len(Y) it raises the ValueError.
C10_Claimed ==
  last.fn = "sample" =>
    LET X == last.args[1]
        Y == last.args[2]
        n_points == last.args[3]
        return_indices == last.args[4]
    IN /\ Len(X) # Len(Y) => last.out = SampleRaise("ValueError", LengthMsg)
       /\ Len(X) = Len(Y) =>
            /\ last.out.kind = "ok"
            /\ Len(last.out.ret) = IF return_indices THEN 3 ELSE 2
            /\ Len(X) <= n_points =>
                 (last.out.ret[1] = X /\ last.out.ret[2] = Y)

\* C11: for every m in [0, 2 pi] and every e in [0, 1) the function
\* f(E) = E - e sin(E) - m that manom_eanom hands to brentq has
\* f(0) <= 0 <= f(2 pi), and the call does not end in brentq's error for
\* end points of the same sign.
C11_Bracketed ==
  (/\ last.fn = "manom_eanom"
   /\ last.args[1] \in 0 .. EccScale - 1
   /\ last.args[2] \in 0 .. 2 * pi) =>
    /\ KeplerF(last.args[1], last.args[2], 0) <= 0
    /\ KeplerF(last.args[1], last.args[2], 2 * pi) >= 0
    /\ last.out # Raise("ValueError", "f(a) and f(b) must have different signs")

C11_Witness ==
  /\ last.fn = "manom_eanom"
  /\ last.args = <<5, 1000>>
  /\ KeplerF(5, 1000, 0) < 0
  /\ KeplerF(5, 1000, 2 * pi) > 0
  /\ IsOk(last.out)
  /\ last.out.val \in 1 .. 2 * pi - 1

\* C12 as claimed: a function of astroutils.py and the function of the same
\* name in cosmology.py or orbits.py give the same outcome for the same
\* arguments (the same value, or an error in both), and the constants of
\* astroutils.py are those of consts.py.
C12_Claimed ==
  /\ globals["astroutils"] = globals["consts"]
  /\ last.fn \in CosmoFns \cup {"manom_eanom"} =>
       LET split == IF last.fn = "manom_eanom" THEN "orbits" ELSE "cosmology"
           twin == IF last.mod = "astroutils" THEN split ELSE "astroutils"
           other == Outcome(globals, Call(last.fn, twin, last.args))
       IN IF IsOk(last.out) THEN other = last.out ELSE ~IsOk(other)

====
